---- MODULE Spec2Model ----
(***************************************************************************)
(* Model of the PostGIS controls of ideuy_controls:                        *)
(*   controls/postgis_controls/pgdb.py  (PGDBManager, classifier)          *)
(*   controls/postgis_controls/main.py  (main, control_table)              *)
(*   controls/commons_controls/file.py  (read_json_file)                   *)
(*                                                                         *)
(* Three specifications share the variables below:                         *)
(*   SpecCheck  one call of _not_allowed_intersection_check on inputs      *)
(*              drawn from bounded sets, followed by the bucketing step    *)
(*   SpecExec   a sequence of PGDBManager.get_query_result calls on one    *)
(*              connection                                                 *)
(*   Spec       main(): connect, list the tables, control_table per table  *)
(***************************************************************************)
EXTENDS Integers, Sequences, FiniteSets, TLC

VARIABLES
  \* ---- SpecCheck: one classifier call ----
  c_pc,         \* "input" -> "checked" -> "bucketed"
  c_admfile,    \* the --admissibles argument and the file behind it
  c_table,      \* argument table
  c_table2,     \* argument table2
  c_row,        \* argument row (query result row)
  c_adm,        \* argument admissibles
  c_msg,        \* returned message
  c_bucket      \* bucket the value was appended to ("none" when no value)

checkVars == <<c_pc, c_admfile, c_table, c_table2, c_row, c_adm, c_msg, c_bucket>>

VARIABLES
  \* ---- the PGDBManager (SpecExec and Spec) ----
  cursor,       \* self.cursor: the transaction's status and savepoints
  uuid,         \* number of uuid1() values drawn so far
  sent,         \* statements passed to cursor.execute, in order
  calls         \* one record per finished get_query_result call

execVars == <<cursor, uuid, sent, calls>>

VARIABLES
  \* ---- Spec: main() ----
  m_pc,         \* position of main: "start", "connected", "tables", "pairs",
                \* "done", "exit" (sys.exit), "crashed" (uncaught exception)
  m_args,       \* command line: rule and the --admissibles file
  m_admissibles, \* result of read_json_file
  m_tables,     \* result of get_schema_table_names
  m_ti,         \* 1-based position of the for-table loop of main
  m_tk,         \* position of control_table among its single-table checks
  m_tj,         \* 1-based position of the for-table2 loop
  m_values,     \* the NotAllowedIntersectionsResult being filled
  m_rows,       \* local variable rows of get_not_allowed_intersection
  m_dirs,       \* folders created by init_file_manager
  m_files,      \* files written through the FileManager
  m_summary_data, \* per rule, the tables appended to the summary
  m_logged,     \* pairs reported with logger.error by the pair loop
  m_checked,    \* one entry per call of _not_allowed_intersection_check
  m_err         \* type of the exception that ended main, ErrNone otherwise

scanVars == <<m_pc, m_args, m_admissibles, m_tables, m_ti, m_tk, m_tj, m_values,
              m_rows, m_dirs, m_files, m_summary_data, m_logged, m_checked,
              m_err>>

VARIABLES
  \* ---- SpecConc: two callers inside get_query_result ----
  k_shared,     \* TRUE: both callers use one PGDBManager (one connection and
                \* cursor); FALSE: each caller has a PGDBManager of its own
  k_conn,       \* per connection: the transaction's status and savepoints
  k_result,     \* per cursor: the result set cursor.fetchall() reads
  k_pc,         \* per caller: position inside get_query_result
  k_cur,        \* per caller: the call in progress (answer, sp_, rows)
  k_log,        \* per caller: one record per finished call
  k_uuid        \* number of uuid1() values drawn so far

concVars == <<k_shared, k_conn, k_result, k_pc, k_cur, k_log, k_uuid>>

VARIABLES
  \* ---- SpecUnit: the module's functions and records called on their own ----
  u_pc,         \* "input", then the position after each call
  u_in,         \* the function called and its arguments
  u_out         \* the value returned by the last call

unitVars == <<u_pc, u_in, u_out>>

VARIABLES
  \* ---- SpecInvoke: get_not_allowed_intersection called again and again ----
  g_pc,         \* "idle" between invocations, "loop" inside the pair loop
  g_heap,       \* the list objects created so far, by identity
  g_values,     \* the NotAllowedIntersectionsResult being filled: per
                \* attribute, the identity of its list
  g_inv,        \* arguments and locals of the invocation in progress
  g_results     \* the objects returned so far, as the caller holds them

invVars == <<g_pc, g_heap, g_values, g_inv, g_results>>

vars == <<checkVars, execVars, scanVars, concVars, unitVars, invVars>>

-----------------------------------------------------------------------------
(* Bounds *)

\* coordinates used in geometry payloads are (x, 0) with x in 0..MaxCoord
MaxCoord == 2

\* number of get_query_result calls issued on the connection in SpecExec
MaxCalls == 4

\* number of tables of the scanned schema
MaxTables == 3

\* number of rows an intersection query returns
MaxRows == 2

\* number of get_not_allowed_intersection invocations on one manager
MaxInvocations == 2

\* number of get_query_result calls of each of the two concurrent callers
MaxConcCalls == 2

-----------------------------------------------------------------------------
(* Messages returned by _not_allowed_intersection_check *)

MsgNotAdmissible == "not addmissible intersection"
MsgCrosses == "crosses"
MsgNotPointOrLine == "result intersection is not point or line"
MsgInvalidAdmissible == "invalid addmissible intersection"
MsgNotLineLine == "not a line-line or line-polygon intersection"

\* the empty message: a row with this message is dropped by the caller
NoMsg == ""

-----------------------------------------------------------------------------
(* GeoJSON payloads (json.loads of row[2], row[3], row[4]) *)

Coords == {<<x, 0>> : x \in 0..MaxCoord}

C0 == <<0, 0>>
C1 == <<1, 0>>
CMax == <<MaxCoord, 0>>

Geom(t, c) == [type |-> t, coordinates |-> c]

\* a GeoJSON GeometryCollection carries "geometries", not "coordinates"
GeomCollection == [type |-> "GeometryCollection", geometries |-> <<Geom("Point", C0)>>]

\* LineStrings of two distinct coordinates, in ascending x order
Lines == {Geom("LineString", <<pq[1], pq[2]>>) :
            pq \in {x \in Coords \X Coords : x[1][1] < x[2][1]}}

\* intersection geometries (row[2])
GeomsI ==
  {Geom("Point", p) : p \in Coords}
  \cup Lines
  \cup {Geom("LineString", <<C0, CMax, C1>>)}
  \cup {Geom("Polygon", << <<C0, C1, CMax, C0>> >>),
        Geom("MultiPolygon", << << <<C0, C1, CMax, C0>> >> >>),
        Geom("MultiPoint", <<C0, C1>>),
        Geom("MultiLineString", << <<C0, C1>> >>),
        GeomCollection}

\* feature geometries (row[3], row[4])
GeomsF ==
  Lines
  \cup {Geom("MultiLineString", << <<C0, C1>>, <<C1, CMax>> >>),
        Geom("Polygon", << <<C0, C1, C0>> >>),
        Geom("Polygon", << <<C0, C1, C0>>, <<CMax, CMax>> >>),
        Geom("MultiPolygon", << << <<C0, C0>> >>, << <<C1, C1>>, <<CMax, CMax>> >> >>),
        Geom("Point", C0)}

\* ST_Dimension(gi): 0 point, 1 line, 2 area, -1 empty
Dims == {-1, 0, 1, 2}

\* rows of intersection_query: t1id, t2id, gi, g1, g2, gi as text, crosses, dimension
\* ST_AsText(ST_Multi(gi)), computed by the database
Wkt(gi) == <<"MULTI", gi.type>>

Row(id1, id2, gi, g1, g2, cr, dim) ==
  [id1 |-> id1, id2 |-> id2, geomi |-> gi, geom1 |-> g1, geom2 |-> g2,
   text |-> Wkt(gi), crosses |-> cr, dimension |-> dim]

CheckRows ==
  {Row(1, 1, gi, g1, g2, cr, dim) :
     gi \in GeomsI, g1 \in GeomsF, g2 \in GeomsF, cr \in BOOLEAN, dim \in Dims}

-----------------------------------------------------------------------------
(* Admissibles: the JSON object read by read_json_file, or None *)

Tables == {"A", "B", "C"}

\* none = TRUE is Python's None; dict maps a table to the tables it may intersect
AdmNone == [none |-> TRUE, dict |-> <<>>]
AdmDict(d) == [none |-> FALSE, dict |-> d]

\* contents of an admissibles file ({} included); the JSON arrays are kept
\* as sets, the classifier only tests membership in them
AdmData ==
  {<<>>,
   [t \in {"A"} |-> {"B"}],
   [t \in {"B"} |-> {"A", "C"}],
   [t \in {"A", "B"} |-> IF t = "A" THEN {"B", "C"} ELSE {}]}

\* the --admissibles argument: given = FALSE when the option is absent;
\* isfile = os.path.isfile(file_name); data = the file's JSON object
AdmFiles ==
  {[given |-> FALSE, isfile |-> FALSE, data |-> <<>>],
   [given |-> TRUE, isfile |-> FALSE, data |-> <<>>]}
  \cup {[given |-> TRUE, isfile |-> TRUE, data |-> d] : d \in AdmData}

read_json_file(file) ==
  IF ~file.given THEN AdmNone
  ELSE IF file.isfile THEN AdmDict(file.data)
  ELSE AdmNone

\* Python truthiness of admissibles: None and {} are falsy
AdmFalsy(adm) == adm.none \/ DOMAIN adm.dict = {}

-----------------------------------------------------------------------------
(* point_in_geojson_geom *)

\* point in coords, for a list of coordinates
InCoords(point, coords) == \E i \in 1..Len(coords) : coords[i] = point

\* variant: only the outer ring of a Polygon is searched
point_in_geojson_geom_outer_ring(point, geom) ==
  IF geom.type = "LineString" THEN InCoords(point, geom.coordinates)
  ELSE IF geom.type = "Polygon"
  THEN InCoords(point, geom.coordinates[1])
  ELSE IF geom.type = "MultiLineString"
  THEN \E i \in 1..Len(geom.coordinates) : InCoords(point, geom.coordinates[i])
  ELSE IF geom.type = "MultiPolygon"
  THEN \E i \in 1..Len(geom.coordinates) :
         \E j \in 1..Len(geom.coordinates[i]) : InCoords(point, geom.coordinates[i][j])
  ELSE FALSE

point_in_geojson_geom(point, geom) ==
  IF geom.type = "LineString" THEN InCoords(point, geom.coordinates)
  ELSE IF geom.type = "Polygon" \/ geom.type = "MultiLineString"
  THEN \E i \in 1..Len(geom.coordinates) : InCoords(point, geom.coordinates[i])
  ELSE IF geom.type = "MultiPolygon"
  THEN \E i \in 1..Len(geom.coordinates) :
         \E j \in 1..Len(geom.coordinates[i]) : InCoords(point, geom.coordinates[i][j])
  ELSE FALSE

-----------------------------------------------------------------------------
(* PGDBManager._not_allowed_intersection_check *)

LineTypes == {"LineString", "MultiLineString"}
PolygonTypes == {"Polygon", "MultiPolygon"}

\* the line-line / line-polygon / polygon-line test on the feature geometries
IsLineLineOrLinePolygon(geom1, geom2) ==
  \/ (geom1.type \in LineTypes /\ geom2.type \in LineTypes)
  \/ (geom1.type \in LineTypes /\ geom2.type \in PolygonTypes)
  \/ (geom1.type \in PolygonTypes /\ geom2.type \in LineTypes)

\* the check points of a Point or LineString intersection
CheckPoints(geomi) ==
  IF geomi.type = "Point"
  THEN <<geomi.coordinates>>
  ELSE <<geomi.coordinates[1], geomi.coordinates[Len(geomi.coordinates)]>>

\* the while loop: ptoi (0-based) advances while points[ptoi] is a vertex of
\* geom1 or of geom2; the value of ptoi when the loop ends
RECURSIVE PtoiLoop(_, _, _, _)
PtoiLoop(points, geom1, geom2, ptoi) ==
  IF ptoi < Len(points)
     /\ (point_in_geojson_geom(points[ptoi + 1], geom1)
         \/ point_in_geojson_geom(points[ptoi + 1], geom2))
  THEN PtoiLoop(points, geom1, geom2, ptoi + 1)
  ELSE ptoi

\* variant: the lookup also accepts the reverse entry admissibles[table2]
NotAdmissible_symmetric(table, table2, admissibles) ==
  \/ AdmFalsy(admissibles)
  \/ /\ (table \notin DOMAIN admissibles.dict \/ table2 \notin admissibles.dict[table])
     /\ (table2 \notin DOMAIN admissibles.dict \/ table \notin admissibles.dict[table2])

\* variant: a missing or empty configuration restricts nothing
NotAdmissible_absent_permits(table, table2, admissibles) ==
  /\ ~AdmFalsy(admissibles)
  /\ (table \notin DOMAIN admissibles.dict \/ table2 \notin admissibles.dict[table])

\* the admissibility gate
NotAdmissible(table, table2, admissibles) ==
  \/ AdmFalsy(admissibles)
  \/ table \notin DOMAIN admissibles.dict
  \/ table2 \notin admissibles.dict[table]

\* variant: MultiPoint passes the topology gate
NotPointNorLine_multipoint(geomi) ==
  geomi.type \notin {"Point", "LineString", "MultiPoint"}

\* the topology gate on the intersection geometry
NotPointNorLine(geomi) == geomi.type # "Point" /\ geomi.type # "LineString"

\* variant: the topology gate is tested before the crosses flag
not_allowed_intersection_check_gate_first(table, table2, row, admissibles) ==
  IF NotAdmissible(table, table2, admissibles) THEN MsgNotAdmissible
  ELSE IF NotPointNorLine(row.geomi) THEN MsgNotPointOrLine
  ELSE IF row.crosses THEN MsgCrosses
  ELSE LET points == CheckPoints(row.geomi) IN
       IF IsLineLineOrLinePolygon(row.geom1, row.geom2)
          /\ PtoiLoop(points, row.geom1, row.geom2, 0) = Len(points)
       THEN MsgInvalidAdmissible
       ELSE MsgNotLineLine

\* variant: a row that passes every gate gets no message
not_allowed_intersection_check_admit(table, table2, row, admissibles) ==
  IF NotAdmissible(table, table2, admissibles) THEN MsgNotAdmissible
  ELSE IF row.crosses THEN MsgCrosses
  ELSE IF NotPointNorLine(row.geomi) THEN MsgNotPointOrLine
  ELSE LET points == CheckPoints(row.geomi) IN
       IF IsLineLineOrLinePolygon(row.geom1, row.geom2)
          /\ PtoiLoop(points, row.geom1, row.geom2, 0) = Len(points)
       THEN MsgInvalidAdmissible
       ELSE NoMsg

not_allowed_intersection_check(table, table2, row, admissibles) ==
  IF NotAdmissible(table, table2, admissibles) THEN MsgNotAdmissible
  ELSE IF row.crosses THEN MsgCrosses
  ELSE IF NotPointNorLine(row.geomi) THEN MsgNotPointOrLine
  ELSE LET points == CheckPoints(row.geomi) IN
       IF IsLineLineOrLinePolygon(row.geom1, row.geom2)
          /\ PtoiLoop(points, row.geom1, row.geom2, 0) = Len(points)
       THEN MsgInvalidAdmissible
       ELSE MsgNotLineLine

-----------------------------------------------------------------------------
(* The bucketing step of get_not_allowed_intersection for one row *)

\* variant: the dimension is tested before the GeometryCollection type
BucketOf_dimension_first(row, msg) ==
  IF msg = NoMsg THEN "none"
  ELSE IF row.dimension = 0 THEN "point"
  ELSE IF row.dimension = 1 THEN "line"
  ELSE IF row.geomi.type = "GeometryCollection" THEN "collection"
  ELSE "polygon"

BucketOf(row, msg) ==
  IF msg = NoMsg THEN "none"
  ELSE IF row.geomi.type = "GeometryCollection" THEN "collection"
  ELSE IF row.dimension = 0 THEN "point"
  ELSE IF row.dimension = 1 THEN "line"
  ELSE "polygon"

-----------------------------------------------------------------------------
(* The connection: psycopg2 cursor on a PostgreSQL transaction *)

\* status: "idle" before the first statement, "intrans" inside the ambient
\* transaction, "aborted" after a failed statement (every statement but
\* ROLLBACK TO SAVEPOINT is then refused until the rollback)
NewConn == [status |-> "idle", savepoints |-> <<>>]

\* self.conn = None, self.cursor = None: before connect and after a failed one
NoConn == [status |-> "none", savepoints |-> <<>>]

StmtSavepoint(n) == [op |-> "SAVEPOINT", name |-> n]
\* variant: the rollback names the savepoint of the call before
StmtRollbackTo_previous(n) == [op |-> "ROLLBACK TO SAVEPOINT", name |-> n - 1]

StmtRollbackTo(n) == [op |-> "ROLLBACK TO SAVEPOINT", name |-> n]
\* variant: the successful call ends with a commit
StmtRelease_commit(n) == [op |-> "COMMIT", name |-> n]

StmtRelease(n) == [op |-> "RELEASE SAVEPOINT", name |-> n]
StmtQuery(q) == [op |-> "QUERY", name |-> q]

\* index of the most recent savepoint called n, 0 when there is none
LastIndexOf(sps, n) ==
  LET idx == {i \in 1..Len(sps) : sps[i] = n}
  IN IF idx = {} THEN 0 ELSE CHOOSE i \in idx : \A j \in idx : j <= i

\* cursor.execute(stmt); answer is what the database does with a caller's
\* query in a healthy transaction: [ok |-> BOOLEAN, rows |-> result set]
CursorExecute(conn, stmt, answer) ==
  LET at == LastIndexOf(conn.savepoints, stmt.name)
      fail == [conn |-> [conn EXCEPT !.status = "aborted"], ok |-> FALSE, rows |-> <<>>]
  IN
  IF stmt.op = "ROLLBACK TO SAVEPOINT"
  THEN IF at = 0 THEN fail
       ELSE [conn |-> [status |-> "intrans",
                       savepoints |-> SubSeq(conn.savepoints, 1, at)],
             ok |-> TRUE, rows |-> <<>>]
  ELSE IF conn.status = "aborted" THEN fail
  ELSE IF stmt.op = "SAVEPOINT"
  THEN [conn |-> [status |-> "intrans",
                  savepoints |-> Append(conn.savepoints, stmt.name)],
        ok |-> TRUE, rows |-> <<>>]
  ELSE IF stmt.op = "RELEASE SAVEPOINT"
  THEN IF at = 0 THEN fail
       ELSE [conn |-> [status |-> "intrans",
                       savepoints |-> SubSeq(conn.savepoints, 1, at - 1)],
             ok |-> TRUE, rows |-> <<>>]
  ELSE IF answer.ok
  THEN [conn |-> [conn EXCEPT !.status = "intrans"], ok |-> TRUE, rows |-> answer.rows]
  ELSE fail

-----------------------------------------------------------------------------
(* PGDBManager.get_query_result *)

\* exception types
ErrNone == "none"
ErrDriver == "psycopg2.Error"
ErrManager == "PGDBManagerError"
ErrUnbound == "UnboundLocalError"
ErrType == "TypeError"

\* variant: the failure is wrapped in the manager's exception
QueryErrorType_wrapped == "PGDBManagerError"

\* the exception get_query_result leaves with when the caller's statement
\* fails: the bare raise re-raises the driver's exception
QueryErrorType == ErrDriver

\* variant: the except clause re-raises without rolling back
OnQueryFailure_no_rollback(conn, sp_, answer) ==
  [conn |-> conn, ok |-> TRUE, rows |-> <<>>]

\* what the except clause sends before re-raising
OnQueryFailure(conn, sp_, answer) == CursorExecute(conn, StmtRollbackTo(sp_), answer)

\* query: the statement; sp_: uuid1().hex; answer: the database's answer
\* result: the connection afterwards, the statements sent, the exception
\* raised (ErrNone when the call returns) and the rows returned
get_query_result(conn, query, sp_, answer) ==
  LET s1 == CursorExecute(conn, StmtSavepoint(sp_), answer) IN
  IF ~s1.ok
  THEN [conn |-> s1.conn, sent |-> <<StmtSavepoint(sp_)>>,
        error |-> ErrDriver, rows |-> <<>>]
  ELSE
  LET s2 == CursorExecute(s1.conn, StmtQuery(query), answer) IN
  IF ~s2.ok
  THEN LET s3 == OnQueryFailure(s2.conn, sp_, answer) IN
       [conn |-> s3.conn,
        sent |-> <<StmtSavepoint(sp_), StmtQuery(query), StmtRollbackTo(sp_)>>,
        error |-> IF s3.ok THEN QueryErrorType ELSE ErrDriver, rows |-> <<>>]
  ELSE LET s3 == CursorExecute(s2.conn, StmtRelease(sp_), answer) IN
       [conn |-> s3.conn,
        sent |-> <<StmtSavepoint(sp_), StmtQuery(query), StmtRelease(sp_)>>,
        error |-> IF s3.ok THEN ErrNone ELSE ErrDriver,
        rows |-> IF s3.ok THEN s2.rows ELSE <<>>]

-----------------------------------------------------------------------------
(* PGDBManager.get_not_allowed_intersection *)

IntersectGeomResult(table1, fid1, table2, fid2, int_geom, msg) ==
  [table1 |-> table1, fid1 |-> fid1, table2 |-> table2, fid2 |-> fid2,
   int_geom |-> int_geom, msg |-> msg]

\* IntersectGeomResult.to_list
to_list(r) == <<r.table1, r.fid1, r.table2, r.fid2, r.int_geom, r.msg>>

\* IntersectGeomResult.from_list on a fresh object; arr[k] of the code is
\* arr[k + 1] here, and arr[1] of the code is read for fid1 and for table2
from_list(arr) ==
  [table1 |-> arr[1], fid1 |-> arr[2], table2 |-> arr[2], fid2 |-> arr[3],
   int_geom |-> arr[4], msg |-> arr[5]]

\* variant: the four lists are created once and given to every object
NewResult_shared(heap) ==
  IF Len(heap) >= 4
  THEN [heap |-> heap,
        obj |-> [point |-> 1, line |-> 2, polygon |-> 3, collection |-> 4]]
  ELSE [heap |-> heap \o << <<>>, <<>>, <<>>, <<>> >>,
        obj |-> [point |-> Len(heap) + 1, line |-> Len(heap) + 2,
                 polygon |-> Len(heap) + 3, collection |-> Len(heap) + 4]]

\* NotAllowedIntersectionsResult(point=[], line=[], polygon=[], collection=[])
\* with the identity of the lists: each [] of the call is a new list, and
\* __init__ keeps the list it is given (a new one for None)
NewResult(heap) ==
  [heap |-> heap \o << <<>>, <<>>, <<>>, <<>> >>,
   obj |-> [point |-> Len(heap) + 1, line |-> Len(heap) + 2,
            polygon |-> Len(heap) + 3, collection |-> Len(heap) + 4]]

\* the lists of an object, by value
Deref(heap, obj) ==
  [point |-> heap[obj.point], line |-> heap[obj.line],
   polygon |-> heap[obj.polygon], collection |-> heap[obj.collection]]

\* the heap after the lists of an object were appended to
Store(heap, obj, vals) ==
  [id \in DOMAIN heap |->
     IF id = obj.point THEN vals.point
     ELSE IF id = obj.line THEN vals.line
     ELSE IF id = obj.polygon THEN vals.polygon
     ELSE IF id = obj.collection THEN vals.collection
     ELSE heap[id]]

\* NotAllowedIntersectionsResult(point=[], line=[], polygon=[], collection=[])
NotAllowedIntersectionsResult ==
  [point |-> <<>>, line |-> <<>>, polygon |-> <<>>, collection |-> <<>>]

BucketKeys == <<"point", "line", "polygon", "collection">>

\* variant: the value is put in front of its bucket
BucketRowInto_prepend(vals, table, table2, row, adm) ==
  LET msg == not_allowed_intersection_check(table, table2, row, adm)
      value == IntersectGeomResult(table, row.id1, table2, row.id2, row.text, msg)
      key == BucketOf(row, msg)
  IN IF key = "none" THEN vals
     ELSE [vals EXCEPT ![key] = <<value>> \o @]

\* the body of the for-row loop: classify the row and append the value
BucketRowInto(vals, table, table2, row, adm) ==
  LET msg == not_allowed_intersection_check(table, table2, row, adm)
      value == IntersectGeomResult(table, row.id1, table2, row.id2, row.text, msg)
      key == BucketOf(row, msg)
  IN IF key = "none" THEN vals
     ELSE [vals EXCEPT ![key] = Append(@, value)]

\* for row in rows, from position k on
RECURSIVE BucketRows(_, _, _, _, _, _)
BucketRows(vals, table, table2, rws, adm, k) ==
  IF k > Len(rws) THEN vals
  ELSE BucketRows(BucketRowInto(vals, table, table2, rws[k], adm),
                  table, table2, rws, adm, k + 1)

\* the local variable rows: unbound until the first successful query
RowsUnbound == [bound |-> FALSE, val |-> <<>>]
RowsBound(rws) == [bound |-> TRUE, val |-> rws]

\* variant: the pair loop catches every exception
CaughtByPairLoop_any == {ErrManager, ErrDriver}

\* the exception type the pair loop catches around get_query_result
CaughtByPairLoop == {ErrManager}

IntersectionQuery(table1, table2) == <<"intersection", table1, table2>>

\* one iteration of the for-table2 loop.  r is the result of get_query_result
\* for intersection_query(schema, table, table2).  Result: the exception that
\* leaves get_not_allowed_intersection (ErrNone when the loop goes on), the
\* buckets, the local rows, whether logger.error was called and the rows
\* the for-row loop passed to the classifier.
PairIteration(r, vals, rws, table, table2, adm) ==
  IF r.error = ErrNone
  THEN [error |-> ErrNone, logged |-> FALSE, rows |-> RowsBound(r.rows),
        checked |-> r.rows,
        values |-> BucketRows(vals, table, table2, r.rows, adm, 1)]
  ELSE IF r.error \in CaughtByPairLoop
  THEN IF rws.bound
       THEN [error |-> ErrNone, logged |-> TRUE, rows |-> rws,
             checked |-> rws.val,
             values |-> BucketRows(vals, table, table2, rws.val, adm, 1)]
       ELSE [error |-> ErrUnbound, logged |-> TRUE, rows |-> rws,
             checked |-> <<>>, values |-> vals]
  ELSE [error |-> r.error, logged |-> FALSE, rows |-> rws,
        checked |-> <<>>, values |-> vals]

-----------------------------------------------------------------------------
(* main.py: process_result and control_table *)

Rule_invalid == "invalid"
Rule_duplicate == "duplicate"
Rule_multipart == "multipart"
Rule_intersect == "intersect"
Rule_null == "null"
Rule_aall == "all"

Rules == {Rule_invalid, Rule_duplicate, Rule_multipart, Rule_intersect,
          Rule_null, Rule_aall}

\* the four single-table checks, in the order control_table runs them
SimpleRules == <<Rule_invalid, Rule_duplicate, Rule_multipart, Rule_null>>

\* number of columns of the result record of a single-table check
SimpleColumns(rule) ==
  IF rule = Rule_invalid THEN 3
  ELSE IF rule = Rule_null THEN 1
  ELSE 2

SimpleHeader(rule) ==
  IF rule = Rule_invalid THEN <<"id", "reason", "location">>
  ELSE IF rule = Rule_duplicate THEN <<"id", "amount">>
  ELSE IF rule = Rule_multipart THEN <<"id", "number">>
  ELSE <<"id">>

IntersectHeader ==
  <<"table-1", "table-1-id", "table-2", "table-2-id", "intersection", "message">>

SimpleQuery(rule, table) == <<rule, table>>

\* first keyword of the SQL text the query builders and
\* get_schema_table_names produce; other texts are not built by the scan
QueryVerb(q) ==
  IF q[1] \in {"pg_tables", "intersection"}
              \cup {SimpleRules[k] : k \in 1..Len(SimpleRules)}
  THEN "SELECT"
  ELSE "OTHER"

\* get_<rule>_geoms_from_table: the query through get_query_result; any
\* failure is logged and raised as PGDBManagerError, the rows are mapped to
\* result records (row[0..n-1]) which control_table turns back into lists
get_geoms_from_table(r, rule) ==
  IF r.error # ErrNone
  THEN [error |-> ErrManager, rows |-> <<>>]
  ELSE [error |-> ErrNone,
        rows |-> [k \in 1..Len(r.rows) |-> SubSeq(r.rows[k], 1, SimpleColumns(rule))]]

\* FileManager.write_csv_file: one file, header row then the rows
CsvFile(dir_name, file_name, hrow, rws) ==
  [dir |-> dir_name, name |-> file_name, hrow |-> hrow, rows |-> rws]

\* process_result without keys: one file {table}.csv
process_result(fls, rule, table, hrow, rws) ==
  fls \cup {CsvFile(rule, <<table>>, hrow, rws)}

\* process_result with keys: data['rows'][key] subscripts the
\* NotAllowedIntersectionsResult object, which defines no __getitem__; the
\* first key raises TypeError before any file is written
process_result_keys(fls, rule, table, hrow, ints, keys) ==
  IF Len(keys) = 0
  THEN [error |-> ErrNone, files |-> process_result(fls, rule, table, hrow, ints)]
  ELSE [error |-> ErrType, files |-> fls]

\* truth value of the object returned by get_not_allowed_intersection:
\* an instance of a class without __bool__ / __len__ is always true
IntsTruthy(ints) == TRUE

-----------------------------------------------------------------------------
(* The database behind the scan *)

TableNames == <<"A", "B", "C", "D">>

\* get_schema_table_names orders by tablename: the schema's tables are a
\* prefix of the sorted names
TableLists == {SubSeq(TableNames, 1, n) : n \in 0..MaxTables}

\* rows an intersection query may return: one sample row per branch of the
\* classifier and per bucket
ScanRows ==
  {Row(1, 1, Geom("Point", C0), Geom("LineString", <<C0, C1>>),
       Geom("Polygon", << <<C0, C1, C0>> >>), FALSE, 0),
   Row(2, 1, Geom("LineString", <<C0, CMax>>), Geom("LineString", <<C0, C1>>),
       Geom("LineString", <<C0, C1>>), FALSE, 1),
   Row(3, 2, Geom("Point", C1), Geom("LineString", <<C0, CMax>>),
       Geom("LineString", <<C0, CMax>>), TRUE, 0),
   Row(4, 2, Geom("Polygon", << <<C0, C1, CMax, C0>> >>),
       Geom("Polygon", << <<C0, C1, C0>> >>),
       Geom("Polygon", << <<C0, C1, C0>> >>), FALSE, 2),
   Row(5, 3, GeomCollection, Geom("LineString", <<C0, C1>>),
       Geom("Polygon", << <<C0, C1, C0>> >>), FALSE, 1)}

RECURSIVE SeqsUpTo(_, _)
SeqsUpTo(S, n) ==
  IF n = 0 THEN {<<>>}
  ELSE LET shorter == SeqsUpTo(S, n - 1)
       IN shorter \cup {Append(q, x) : q \in shorter, x \in S}

\* answers of the database to an intersection query
PairAnswers ==
  {[ok |-> FALSE, rows |-> <<>>]}
  \cup {[ok |-> TRUE, rows |-> rws] : rws \in SeqsUpTo(ScanRows, MaxRows)}

\* answers of the database to the query of a single-table check
SimpleAnswers ==
  {[ok |-> FALSE, rows |-> <<>>],
   [ok |-> TRUE, rows |-> <<>>],
   [ok |-> TRUE, rows |-> << <<5, 2, 0>> >>]}

-----------------------------------------------------------------------------
(* The part of the state a specification does not use stays at rest *)

CheckIdle ==
  /\ c_pc = "idle"
  /\ c_admfile = [given |-> FALSE, isfile |-> FALSE, data |-> <<>>]
  /\ c_table = "A"
  /\ c_table2 = "B"
  /\ c_row = Row(0, 0, GeomCollection, GeomCollection, GeomCollection, FALSE, 0)
  /\ c_adm = AdmNone
  /\ c_msg = NoMsg
  /\ c_bucket = "none"

ExecIdle ==
  /\ cursor = NewConn
  /\ uuid = 0
  /\ sent = <<>>
  /\ calls = <<>>

\* the record kept of a finished get_query_result call: the statement,
\* whether the database accepts it, the exception raised, the rows returned
CallRecord(q, answer, r) ==
  [query |-> q, ok |-> answer.ok, error |-> r.error, rows |-> r.rows]

ScanIdle ==
  /\ m_pc = "idle"
  /\ m_args = [rule |-> Rule_aall, admfile |-> [given |-> FALSE, isfile |-> FALSE, data |-> <<>>]]
  /\ m_admissibles = AdmNone
  /\ m_tables = <<>>
  /\ m_ti = 0
  /\ m_tk = 0
  /\ m_tj = 0
  /\ m_values = NotAllowedIntersectionsResult
  /\ m_rows = RowsUnbound
  /\ m_dirs = {}
  /\ m_files = {}
  /\ m_summary_data = <<>>
  /\ m_logged = <<>>
  /\ m_checked = <<>>
  /\ m_err = ErrNone

Callers == {1, 2}

\* no result set on the cursor: fetchall() raises ProgrammingError
NoResult == [has |-> FALSE, rows |-> <<>>]

NoCall == [answer |-> [ok |-> FALSE, rows |-> <<>>], sp |-> 0, rows |-> <<>>]

ConcIdle ==
  /\ k_shared = FALSE
  /\ k_conn = [n \in Callers |-> NoConn]
  /\ k_result = [n \in Callers |-> NoResult]
  /\ k_pc = [c \in Callers |-> "idle"]
  /\ k_cur = [c \in Callers |-> NoCall]
  /\ k_log = [c \in Callers |-> <<>>]
  /\ k_uuid = 0

NoObject == [point |-> 0, line |-> 0, polygon |-> 0, collection |-> 0]

NoInvocation ==
  [table |-> "", tables |-> <<>>, admissibles |-> AdmNone, tj |-> 0,
   rows |-> RowsUnbound, before |-> NotAllowedIntersectionsResult]

InvIdle ==
  /\ g_pc = "idle"
  /\ g_heap = <<>>
  /\ g_values = NoObject
  /\ g_inv = NoInvocation
  /\ g_results = <<>>

UnitIdle ==
  /\ u_pc = "idle"
  /\ u_in = [fn |-> "none"]
  /\ u_out = <<>>

-----------------------------------------------------------------------------
(* SpecExec: calls of get_query_result issued one after another *)

\* statements of the callers: two that the database answers, two it refuses
ExecQueries == {"count", "names", "nosuchtable", "syntaxerror"}

ExecAnswer(q) ==
  IF q = "count" THEN [ok |-> TRUE, rows |-> << <<5>> >>]
  ELSE IF q = "names" THEN [ok |-> TRUE, rows |-> << <<1>>, <<2>> >>]
  ELSE [ok |-> FALSE, rows |-> <<>>]

InitExec ==
  /\ ExecIdle
  /\ CheckIdle
  /\ ScanIdle
  /\ ConcIdle
  /\ UnitIdle
  /\ InvIdle

Call(q) ==
  /\ Len(calls) < MaxCalls
  /\ LET r == get_query_result(cursor, q, uuid + 1, ExecAnswer(q)) IN
     /\ cursor' = r.conn
     /\ sent' = sent \o r.sent
     /\ calls' = Append(calls, CallRecord(q, ExecAnswer(q), r))
  /\ uuid' = uuid + 1
  /\ UNCHANGED <<checkVars, scanVars, concVars, unitVars, invVars>>

NextExec == \E q \in ExecQueries : Call(q)

SpecExec == InitExec /\ [][NextExec]_vars

-----------------------------------------------------------------------------
(* SpecCheck: the classifier applied to every input of the bounded sets *)

CheckPairs == {<<"A", "B">>, <<"B", "A">>, <<"A", "C">>}

InitCheck ==
  /\ c_pc = "input"
  /\ \E tt \in CheckPairs : c_table = tt[1] /\ c_table2 = tt[2]
  /\ c_row \in CheckRows
  /\ c_admfile \in AdmFiles
  /\ c_adm = read_json_file(c_admfile)
  /\ c_msg = NoMsg
  /\ c_bucket = "none"
  /\ ExecIdle
  /\ ScanIdle
  /\ ConcIdle
  /\ UnitIdle
  /\ InvIdle

CheckRow ==
  /\ c_pc = "input"
  /\ c_msg' = not_allowed_intersection_check(c_table, c_table2, c_row, c_adm)
  /\ c_pc' = "checked"
  /\ UNCHANGED <<c_admfile, c_table, c_table2, c_row, c_adm, c_bucket>>
  /\ UNCHANGED <<execVars, scanVars, concVars, unitVars, invVars>>

BucketRow ==
  /\ c_pc = "checked"
  /\ c_bucket' = BucketOf(c_row, c_msg)
  /\ c_pc' = "bucketed"
  /\ UNCHANGED <<c_admfile, c_table, c_table2, c_row, c_adm, c_msg>>
  /\ UNCHANGED <<execVars, scanVars, concVars, unitVars, invVars>>

NextCheck == CheckRow \/ BucketRow

SpecCheck == InitCheck /\ [][NextCheck]_vars

-----------------------------------------------------------------------------
(* Spec: main() *)

\* the single-table checks control_table runs for a rule, in order
Applicable(rule) == {k \in 1..Len(SimpleRules) : rule \in {SimpleRules[k], Rule_aall}}

\* the first check at or after position k that control_table runs for the
\* rule, Len(SimpleRules) + 1 when there is none
RECURSIVE NextCheckFrom(_, _)
NextCheckFrom(rule, k) ==
  IF k > Len(SimpleRules) \/ k \in Applicable(rule) THEN k
  ELSE NextCheckFrom(rule, k + 1)

\* variant: rule all also gets the intersect folder
init_file_manager_all_intersect(rule) ==
  {SimpleRules[k] : k \in {i \in 1..Len(SimpleRules) : rule \in {SimpleRules[i], Rule_aall}}}
  \cup (IF rule \in {Rule_intersect, Rule_aall} THEN {Rule_intersect} ELSE {})

\* init_file_manager: the folders added for the rule
init_file_manager(rule) ==
  {SimpleRules[k] : k \in {i \in 1..Len(SimpleRules) : rule \in {SimpleRules[i], Rule_aall}}}
  \cup (IF rule = Rule_intersect THEN {Rule_intersect} ELSE {})

\* PGDBManager.connect: ok is whether psycopg2.connect succeeds
connect(ok) ==
  IF ok THEN [error |-> ErrNone, conn |-> NewConn]
  ELSE [error |-> ErrManager, conn |-> NoConn]

\* init_summary_data: an empty list per rule
init_summary_data == [r \in Rules \ {Rule_aall} |-> <<>>]

\* answers of the database to the query of get_schema_table_names
SchemaAnswers ==
  {[ok |-> FALSE, rows |-> <<>>]}
  \cup {[ok |-> TRUE, rows |-> [k \in 1..Len(tl) |-> <<tl[k]>>]] : tl \in TableLists}

SchemaQuery == <<"pg_tables">>

\* variant: a failure is logged and an empty table list is returned
get_schema_table_names_swallow(r) ==
  IF r.error # ErrNone
  THEN [error |-> ErrNone, rows |-> <<>>]
  ELSE [error |-> ErrNone, rows |-> [k \in 1..Len(r.rows) |-> r.rows[k][1]]]

\* get_schema_table_names: any failure is raised as PGDBManagerError
get_schema_table_names(r) ==
  IF r.error # ErrNone
  THEN [error |-> ErrManager, rows |-> <<>>]
  ELSE [error |-> ErrNone, rows |-> [k \in 1..Len(r.rows) |-> r.rows[k][1]]]

\* admissibles files of the scan
ScanAdmFiles ==
  {[given |-> FALSE, isfile |-> FALSE, data |-> <<>>],
   [given |-> TRUE, isfile |-> TRUE, data |-> [t \in {"A"} |-> {"B"}]]}

Init ==
  /\ m_pc = "start"
  /\ m_args \in [rule : Rules, admfile : ScanAdmFiles]
  /\ m_admissibles = AdmNone
  /\ m_tables = <<>>
  /\ m_ti = 0
  /\ m_tk = 0
  /\ m_tj = 0
  /\ m_values = NotAllowedIntersectionsResult
  /\ m_rows = RowsUnbound
  /\ m_dirs = {}
  /\ m_files = {}
  /\ m_summary_data = <<>>
  /\ m_logged = <<>>
  /\ m_checked = <<>>
  /\ m_err = ErrNone
  /\ cursor = NoConn
  /\ uuid = 0
  /\ sent = <<>>
  /\ calls = <<>>
  /\ CheckIdle
  /\ ConcIdle
  /\ UnitIdle
  /\ InvIdle

\* main up to init_pgdb: the folders, then the connection; a failed connect
\* is caught by init_pgdb and main leaves through sys.exit()
Connect ==
  /\ m_pc = "start"
  /\ m_dirs' = init_file_manager(m_args.rule)
  /\ \E ok \in BOOLEAN :
       LET c == connect(ok) IN
       /\ cursor' = c.conn
       /\ m_pc' = IF c.error = ErrNone THEN "connected" ELSE "exit"
  /\ UNCHANGED <<m_args, m_admissibles, m_tables, m_ti, m_tk, m_tj, m_values, m_rows,
                 m_files, m_summary_data, m_logged, m_checked, m_err>>
  /\ UNCHANGED <<uuid, sent, calls, checkVars, concVars, unitVars, invVars>>

\* read_json_file, get_schema_table_names, init_summary_data
ListTables ==
  /\ m_pc = "connected"
  /\ m_admissibles' = read_json_file(m_args.admfile)
  /\ \E answer \in SchemaAnswers :
       LET r == get_query_result(cursor, SchemaQuery, uuid + 1, answer)
           t == get_schema_table_names(r)
       IN
       /\ cursor' = r.conn
       /\ sent' = sent \o r.sent
       /\ calls' = Append(calls, CallRecord(SchemaQuery, answer, r))
       /\ IF t.error # ErrNone
          THEN /\ m_pc' = "crashed"
               /\ m_err' = t.error
               /\ UNCHANGED <<m_tables, m_ti, m_tk, m_summary_data>>
          ELSE /\ m_pc' = "tables"
               /\ m_err' = m_err
               /\ m_tables' = t.rows
               /\ m_ti' = 1
               /\ m_tk' = NextCheckFrom(m_args.rule, 1)
               /\ m_summary_data' = init_summary_data
  /\ uuid' = uuid + 1
  /\ UNCHANGED <<m_args, m_tj, m_values, m_rows, m_dirs, m_files, m_logged,
                 m_checked>>
  /\ UNCHANGED <<checkVars, concVars, unitVars, invVars>>

\* control_table for a rule other than intersect: the check at position m_tk
\* of the current table.  A failing query raises PGDBManagerError, which
\* neither control_table nor main catches; rows found are written to
\* {table}.csv and the table is appended to the summary of the rule
ControlTableSimple ==
  /\ m_pc = "tables"
  /\ m_ti <= Len(m_tables)
  /\ m_args.rule # Rule_intersect
  /\ \E answer \in SimpleAnswers :
       LET rule == SimpleRules[m_tk]
           table == m_tables[m_ti]
           q == SimpleQuery(rule, table)
           r == get_query_result(cursor, q, uuid + 1, answer)
           g == get_geoms_from_table(r, rule)
           nxt == NextCheckFrom(m_args.rule, m_tk + 1)
       IN
       /\ cursor' = r.conn
       /\ sent' = sent \o r.sent
       /\ calls' = Append(calls, CallRecord(q, answer, r))
       /\ m_err' = g.error
       /\ IF g.error # ErrNone
          THEN /\ m_pc' = "crashed"
               /\ UNCHANGED <<m_ti, m_tk, m_files, m_summary_data>>
          ELSE /\ m_pc' = "tables"
               /\ IF Len(g.rows) > 0
                  THEN /\ m_files' = process_result(m_files, rule, table,
                                                    SimpleHeader(rule), g.rows)
                       /\ m_summary_data' = [m_summary_data EXCEPT ![rule] = Append(@, table)]
                  ELSE UNCHANGED <<m_files, m_summary_data>>
               /\ IF nxt > Len(SimpleRules)
                  THEN m_ti' = m_ti + 1 /\ m_tk' = NextCheckFrom(m_args.rule, 1)
                  ELSE m_ti' = m_ti /\ m_tk' = nxt
  /\ uuid' = uuid + 1
  /\ UNCHANGED <<m_args, m_admissibles, m_tables, m_tj, m_values, m_rows, m_dirs,
                 m_logged, m_checked>>
  /\ UNCHANGED <<checkVars, concVars, unitVars, invVars>>

\* tables.index(table): position of the first occurrence, 0-based
IndexOf(tbls, table) ==
  (CHOOSE i \in 1..Len(tbls) :
     tbls[i] = table /\ \A j \in 1..(i - 1) : tbls[j] # table) - 1

\* dbi['tables'][i:] for i = index(table) + 1
TablesAfter(tbls, table) == SubSeq(tbls, IndexOf(tbls, table) + 2, Len(tbls))

\* control_table for rule intersect: with tables after the base table the
\* pair loop of get_not_allowed_intersection is entered, else nothing is done
ControlTableIntersect ==
  /\ m_pc = "tables"
  /\ m_ti <= Len(m_tables)
  /\ m_args.rule = Rule_intersect
  /\ IF IndexOf(m_tables, m_tables[m_ti]) + 1 < Len(m_tables)
     THEN /\ m_pc' = "pairs"
          /\ m_values' = NotAllowedIntersectionsResult
          /\ m_rows' = RowsUnbound
          /\ m_tj' = 1
          /\ m_ti' = m_ti
     ELSE /\ m_pc' = "tables"
          /\ m_ti' = m_ti + 1
          /\ UNCHANGED <<m_values, m_rows, m_tj>>
  /\ UNCHANGED <<m_args, m_admissibles, m_tables, m_tk, m_dirs, m_files,
                 m_summary_data, m_logged, m_checked, m_err>>
  /\ UNCHANGED <<execVars, checkVars, concVars, unitVars, invVars>>

\* one iteration of for table2 in tables: the query, then the rows
PairStep ==
  /\ m_pc = "pairs"
  /\ LET table == m_tables[m_ti]
         rest == TablesAfter(m_tables, table)
     IN
     /\ m_tj <= Len(rest)
     /\ \E answer \in PairAnswers :
          LET q == IntersectionQuery(table, rest[m_tj])
              r == get_query_result(cursor, q, uuid + 1, answer)
              it == PairIteration(r, m_values, m_rows, table, rest[m_tj], m_admissibles)
          IN
          /\ cursor' = r.conn
          /\ sent' = sent \o r.sent
          /\ calls' = Append(calls, CallRecord(q, answer, r))
          /\ m_values' = it.values
          /\ m_rows' = it.rows
          /\ m_logged' = IF it.logged THEN Append(m_logged, <<table, rest[m_tj]>>)
                         ELSE m_logged
          /\ m_checked' = m_checked \o
               [k \in 1..Len(it.checked) |->
                  [table |-> table, table2 |-> rest[m_tj], row |-> it.checked[k]]]
          /\ m_err' = it.error
          /\ IF it.error # ErrNone
             THEN m_pc' = "crashed" /\ m_tj' = m_tj
             ELSE m_pc' = "pairs" /\ m_tj' = m_tj + 1
  /\ uuid' = uuid + 1
  /\ UNCHANGED <<m_args, m_admissibles, m_tables, m_ti, m_tk, m_dirs, m_files,
                 m_summary_data>>
  /\ UNCHANGED <<checkVars, concVars, unitVars, invVars>>

\* get_not_allowed_intersection returns; control_table hands the result to
\* process_result and appends the table to the summary
IntersectReturn ==
  /\ m_pc = "pairs"
  /\ m_tj > Len(TablesAfter(m_tables, m_tables[m_ti]))
  /\ IF IntsTruthy(m_values)
     THEN LET pr == process_result_keys(m_files, Rule_intersect, m_tables[m_ti],
                                        IntersectHeader, m_values, BucketKeys)
          IN IF pr.error # ErrNone
             THEN /\ m_pc' = "crashed"
                  /\ m_err' = pr.error
                  /\ UNCHANGED <<m_files, m_summary_data, m_ti>>
             ELSE /\ m_pc' = "tables"
                  /\ m_files' = pr.files
                  /\ m_summary_data' =
                       [m_summary_data EXCEPT ![Rule_intersect] = Append(@, m_tables[m_ti])]
                  /\ m_ti' = m_ti + 1
                  /\ m_err' = m_err
     ELSE /\ m_pc' = "tables"
          /\ m_ti' = m_ti + 1
          /\ UNCHANGED <<m_files, m_summary_data, m_err>>
  /\ UNCHANGED <<m_args, m_admissibles, m_tables, m_tk, m_tj, m_values, m_rows,
                 m_dirs, m_logged, m_checked>>
  /\ UNCHANGED <<execVars, checkVars, concVars, unitVars, invVars>>

SummaryFile == [dir |-> "", name |-> <<"summary">>, hrow |-> <<>>, rows |-> <<>>]

\* after the last table: the summary file is written and main ends
Finish ==
  /\ m_pc = "tables"
  /\ m_ti > Len(m_tables)
  /\ m_pc' = "done"
  /\ m_files' = m_files \cup {SummaryFile}
  /\ UNCHANGED <<m_args, m_admissibles, m_tables, m_ti, m_tk, m_tj, m_values,
                 m_rows, m_dirs, m_summary_data, m_logged, m_checked, m_err>>
  /\ UNCHANGED <<execVars, checkVars, concVars, unitVars, invVars>>

Next ==
  \/ Connect
  \/ ListTables
  \/ ControlTableSimple
  \/ ControlTableIntersect
  \/ PairStep
  \/ IntersectReturn
  \/ Finish

Spec == Init /\ [][Next]_vars

-----------------------------------------------------------------------------
(* SpecConc: two callers run get_query_result at the same time, statement
   by statement, on one shared PGDBManager or on one PGDBManager each *)

\* variant: every caller is given the first PGDBManager
ConnOf_first(c) == 1

\* the connection (and cursor) a caller's PGDBManager holds
ConnOf(c) == IF k_shared THEN 1 ELSE c

\* what the database does with a caller's query in a healthy transaction;
\* the rows of an accepted query name the caller
ConcAnswers(c) == {[ok |-> TRUE, rows |-> << <<c>> >>], [ok |-> FALSE, rows |-> <<>>]}

ConcQuery(c) == <<"query", c>>

\* record of a finished call: what the database would answer, the exception
\* the call left with, the rows it returned
ConcRecord(answer, error, rws) ==
  [ok |-> answer.ok, expected |-> answer.rows, error |-> error, rows |-> rws]

InitConc ==
  /\ k_shared \in BOOLEAN
  /\ k_conn = [n \in Callers |-> NewConn]
  /\ k_result = [n \in Callers |-> NoResult]
  /\ k_pc = [c \in Callers |-> "idle"]
  /\ k_cur = [c \in Callers |-> NoCall]
  /\ k_log = [c \in Callers |-> <<>>]
  /\ k_uuid = 0
  /\ CheckIdle
  /\ ExecIdle
  /\ ScanIdle
  /\ UnitIdle
  /\ InvIdle

\* sp_ = uuid1().hex and cursor.execute('SAVEPOINT ...'), outside the try:
\* a refused SAVEPOINT leaves the call with the driver's exception
Savepoint(c) ==
  /\ k_pc[c] = "idle"
  /\ Len(k_log[c]) < MaxConcCalls
  /\ \E answer \in ConcAnswers(c) :
       LET n == ConnOf(c)
           sp_ == k_uuid + 1
           s1 == CursorExecute(k_conn[n], StmtSavepoint(sp_), answer)
       IN
       /\ k_conn' = [k_conn EXCEPT ![n] = s1.conn]
       /\ k_result' = [k_result EXCEPT ![n] = NoResult]
       /\ IF s1.ok
          THEN /\ k_pc' = [k_pc EXCEPT ![c] = "try"]
               /\ k_cur' = [k_cur EXCEPT ![c] = [answer |-> answer, sp |-> sp_,
                                                 rows |-> <<>>]]
               /\ k_log' = k_log
          ELSE /\ k_pc' = k_pc
               /\ k_cur' = k_cur
               /\ k_log' = [k_log EXCEPT ![c] = Append(@, ConcRecord(answer, ErrDriver, <<>>))]
  /\ k_uuid' = k_uuid + 1
  /\ UNCHANGED k_shared
  /\ UNCHANGED <<checkVars, execVars, scanVars, unitVars, invVars>>

\* cursor.execute(query) inside the try
Execute(c) ==
  /\ k_pc[c] = "try"
  /\ LET n == ConnOf(c)
         s2 == CursorExecute(k_conn[n], StmtQuery(ConcQuery(c)), k_cur[c].answer)
     IN
     /\ k_conn' = [k_conn EXCEPT ![n] = s2.conn]
     /\ k_result' = [k_result EXCEPT ![n] =
                       IF s2.ok THEN [has |-> TRUE, rows |-> s2.rows] ELSE NoResult]
     /\ k_pc' = [k_pc EXCEPT ![c] = IF s2.ok THEN "executed" ELSE "except"]
  /\ UNCHANGED <<k_shared, k_cur, k_log, k_uuid>>
  /\ UNCHANGED <<checkVars, execVars, scanVars, unitVars, invVars>>

\* rows = cursor.fetchall(): the rows left on the cursor by the last
\* statement executed on it; without a result set the driver raises
Fetch(c) ==
  /\ k_pc[c] = "executed"
  /\ LET n == ConnOf(c) IN
     IF k_result[n].has
     THEN /\ k_cur' = [k_cur EXCEPT ![c].rows = k_result[n].rows]
          /\ k_result' = [k_result EXCEPT ![n].rows = <<>>]
          /\ k_pc' = [k_pc EXCEPT ![c] = "else"]
     ELSE /\ k_pc' = [k_pc EXCEPT ![c] = "except"]
          /\ UNCHANGED <<k_cur, k_result>>
  /\ UNCHANGED <<k_shared, k_conn, k_log, k_uuid>>
  /\ UNCHANGED <<checkVars, execVars, scanVars, unitVars, invVars>>

\* except Exception: ROLLBACK TO SAVEPOINT, then raise
RollbackTo(c) ==
  /\ k_pc[c] = "except"
  /\ LET n == ConnOf(c)
         s3 == OnQueryFailure(k_conn[n], k_cur[c].sp, k_cur[c].answer)
     IN
     /\ k_conn' = [k_conn EXCEPT ![n] = s3.conn]
     /\ k_result' = [k_result EXCEPT ![n] = NoResult]
     /\ k_log' = [k_log EXCEPT ![c] =
                    Append(@, ConcRecord(k_cur[c].answer,
                                         IF s3.ok THEN QueryErrorType ELSE ErrDriver,
                                         <<>>))]
  /\ k_pc' = [k_pc EXCEPT ![c] = "idle"]
  /\ k_cur' = [k_cur EXCEPT ![c] = NoCall]
  /\ UNCHANGED <<k_shared, k_uuid>>
  /\ UNCHANGED <<checkVars, execVars, scanVars, unitVars, invVars>>

\* else: RELEASE SAVEPOINT, then return rows
Release(c) ==
  /\ k_pc[c] = "else"
  /\ LET n == ConnOf(c)
         s3 == CursorExecute(k_conn[n], StmtRelease(k_cur[c].sp), k_cur[c].answer)
     IN
     /\ k_conn' = [k_conn EXCEPT ![n] = s3.conn]
     /\ k_result' = [k_result EXCEPT ![n] = NoResult]
     /\ k_log' = [k_log EXCEPT ![c] =
                    Append(@, IF s3.ok
                              THEN ConcRecord(k_cur[c].answer, ErrNone, k_cur[c].rows)
                              ELSE ConcRecord(k_cur[c].answer, ErrDriver, <<>>))]
  /\ k_pc' = [k_pc EXCEPT ![c] = "idle"]
  /\ k_cur' = [k_cur EXCEPT ![c] = NoCall]
  /\ UNCHANGED <<k_shared, k_uuid>>
  /\ UNCHANGED <<checkVars, execVars, scanVars, unitVars, invVars>>

NextConc ==
  \E c \in Callers :
    \/ Savepoint(c)
    \/ Execute(c)
    \/ Fetch(c)
    \/ RollbackTo(c)
    \/ Release(c)

SpecConc == InitConc /\ [][NextConc]_vars

-----------------------------------------------------------------------------
(* SpecUnit: point_in_geojson_geom and the IntersectGeomResult round trip
   applied to every input of the bounded sets *)

\* geometries given to point_in_geojson_geom: every GeoJSON type
UnitGeoms == GeomsI \cup GeomsF

\* records given to to_list; the id column and the geometry text are given
\* as text, so that any two fields of a record can be compared
UnitRecords ==
  {IntersectGeomResult(t1, f1, t2, f2, ty, msg) :
     t1 \in {"A"}, f1 \in {"1", "2"}, t2 \in {"B", "C"}, f2 \in {"1", "2"},
     ty \in {"MULTIPOINT", "MULTILINESTRING"}, msg \in {MsgNotAdmissible, MsgCrosses}}

InitUnit ==
  /\ u_pc = "input"
  /\ u_in \in {[fn |-> "point_in_geojson_geom", point |-> p, geom |-> g] :
                 p \in Coords, g \in UnitGeoms}
              \cup {[fn |-> "to_list", rec |-> r] : r \in UnitRecords}
  /\ u_out = <<>>
  /\ CheckIdle
  /\ ExecIdle
  /\ ScanIdle
  /\ ConcIdle
  /\ InvIdle

PointInGeom ==
  /\ u_pc = "input"
  /\ u_in.fn = "point_in_geojson_geom"
  /\ u_out' = point_in_geojson_geom(u_in.point, u_in.geom)
  /\ u_pc' = "returned"
  /\ UNCHANGED u_in
  /\ UNCHANGED <<checkVars, execVars, scanVars, concVars, invVars>>

ToList ==
  /\ u_pc = "input"
  /\ u_in.fn = "to_list"
  /\ u_out' = to_list(u_in.rec)
  /\ u_pc' = "listed"
  /\ UNCHANGED u_in
  /\ UNCHANGED <<checkVars, execVars, scanVars, concVars, invVars>>

\* IntersectGeomResult().from_list(...) on the list to_list returned
FromList ==
  /\ u_pc = "listed"
  /\ u_out' = from_list(u_out)
  /\ u_pc' = "loaded"
  /\ UNCHANGED u_in
  /\ UNCHANGED <<checkVars, execVars, scanVars, concVars, invVars>>

NextUnit == PointInGeom \/ ToList \/ FromList

SpecUnit == InitUnit /\ [][NextUnit]_vars

-----------------------------------------------------------------------------
(* SpecInvoke: a caller invokes get_not_allowed_intersection several times
   on one connected PGDBManager and keeps the returned objects *)

\* arguments of the invocations: a base table and the tables after it
InvokeArgs ==
  {[table |-> "A", tables |-> <<"B", "C">>], [table |-> "B", tables |-> <<"C">>]}

InvokeAdmissibles == {AdmNone, AdmDict([t \in {"A"} |-> {"B"}])}

\* answers of the database to an intersection query: refused, no row, one
\* row, two rows of different buckets
InvokeAnswers ==
  LET r1 == Row(1, 1, Geom("Point", C0), Geom("LineString", <<C0, C1>>),
                Geom("Polygon", << <<C0, C1, C0>> >>), FALSE, 0)
      r2 == Row(2, 1, Geom("LineString", <<C0, CMax>>), Geom("LineString", <<C0, C1>>),
                Geom("LineString", <<C0, C1>>), FALSE, 1)
      r3 == Row(3, 2, Geom("Point", C1), Geom("LineString", <<C0, CMax>>),
                Geom("LineString", <<C0, CMax>>), TRUE, 0)
  IN {[ok |-> FALSE, rows |-> <<>>],
      [ok |-> TRUE, rows |-> <<>>],
      [ok |-> TRUE, rows |-> <<r1>>],
      [ok |-> TRUE, rows |-> <<r2, r3>>]}

InitInvoke ==
  /\ g_pc = "idle"
  /\ g_heap = <<>>
  /\ g_values = NoObject
  /\ g_inv = NoInvocation
  /\ g_results = <<>>
  /\ cursor = NewConn
  /\ uuid = 0
  /\ sent = <<>>
  /\ calls = <<>>
  /\ CheckIdle
  /\ ScanIdle
  /\ ConcIdle
  /\ UnitIdle

\* entry of get_not_allowed_intersection: values = NotAllowedIntersectionsResult(...)
Invoke ==
  /\ g_pc = "idle"
  /\ Len(g_results) < MaxInvocations
  /\ uuid < MaxCalls
  /\ \E a \in InvokeArgs, adm \in InvokeAdmissibles :
       LET n == NewResult(g_heap) IN
       /\ g_heap' = n.heap
       /\ g_values' = n.obj
       /\ g_inv' = [table |-> a.table, tables |-> a.tables, admissibles |-> adm,
                    tj |-> 1, rows |-> RowsUnbound,
                    before |-> Deref(n.heap, n.obj)]
  /\ g_pc' = "loop"
  /\ UNCHANGED g_results
  /\ UNCHANGED <<checkVars, execVars, scanVars, concVars, unitVars>>

\* one iteration of for table2 in tables; an exception leaves the method and
\* the object under construction is dropped
InvokePair ==
  /\ g_pc = "loop"
  /\ g_inv.tj <= Len(g_inv.tables)
  /\ \E answer \in InvokeAnswers :
       LET table2 == g_inv.tables[g_inv.tj]
           q == IntersectionQuery(g_inv.table, table2)
           r == get_query_result(cursor, q, uuid + 1, answer)
           before == Deref(g_heap, g_values)
           it == PairIteration(r, before, g_inv.rows, g_inv.table, table2,
                               g_inv.admissibles)
       IN
       /\ cursor' = r.conn
       /\ sent' = sent \o r.sent
       /\ calls' = Append(calls, CallRecord(q, answer, r))
       /\ g_heap' = Store(g_heap, g_values, it.values)
       /\ IF it.error # ErrNone
          THEN /\ g_pc' = "idle"
               /\ g_values' = NoObject
               /\ g_inv' = NoInvocation
          ELSE /\ g_pc' = "loop"
               /\ g_values' = g_values
               /\ g_inv' = [g_inv EXCEPT !.tj = @ + 1, !.rows = it.rows,
                                         !.before = before]
  /\ uuid' = uuid + 1
  /\ UNCHANGED g_results
  /\ UNCHANGED <<checkVars, scanVars, concVars, unitVars>>

\* return values: the caller keeps the object
InvokeReturn ==
  /\ g_pc = "loop"
  /\ g_inv.tj > Len(g_inv.tables)
  /\ g_results' = Append(g_results, [obj |-> g_values,
                                     returned |-> Deref(g_heap, g_values)])
  /\ g_pc' = "idle"
  /\ g_values' = NoObject
  /\ g_inv' = NoInvocation
  /\ UNCHANGED g_heap
  /\ UNCHANGED <<checkVars, execVars, scanVars, concVars, unitVars>>

NextInvoke == Invoke \/ InvokePair \/ InvokeReturn

SpecInvoke == InitInvoke /\ [][NextInvoke]_vars

-----------------------------------------------------------------------------
(* Properties of get_query_result (SpecExec) *)

\* C1: after every call of a sequence of get_query_result calls the ambient
\* transaction is usable, and every call whose statement the database
\* accepts returns without exception with that statement's rows, whatever
\* calls failed before it
C1_ValidCallsSucceed ==
  /\ cursor.status # "aborted"
  /\ \A i \in 1..Len(calls) :
       calls[i].ok =>
         /\ calls[i].error = ErrNone
         /\ calls[i].rows = ExecAnswer(calls[i].query).rows

\* a failing call directly followed by a succeeding one with its rows
C1_Witness ==
  \E i \in 1..(Len(calls) - 1) :
    /\ ~calls[i].ok
    /\ calls[i].error # ErrNone
    /\ calls[i + 1].ok
    /\ calls[i + 1].error = ErrNone
    /\ calls[i + 1].rows = << <<5>> >>

\* C2: a call whose statement fails leaves with the executor's own error
\* type, PGDBManagerError, never with the driver's exception
C2_FailureRaisesManagerError ==
  \A i \in 1..Len(calls) :
    ~calls[i].ok => calls[i].error = ErrManager

-----------------------------------------------------------------------------
(* Properties of the scan (Spec) *)

IsPairCall(c) == c.query[1] = "intersection"

\* C3: when the intersection query of a pair fails, the pair is logged and
\* skipped and the pair loop goes on; the failure does not leave
\* get_not_allowed_intersection
C3_FailedPairSkipped ==
  (Len(calls) > 0 /\ IsPairCall(calls[Len(calls)]) /\ ~calls[Len(calls)].ok
   /\ m_pc \in {"pairs", "crashed"})
  => /\ m_pc = "pairs"
     /\ m_err = ErrNone
     /\ \E k \in 1..Len(m_logged) :
          m_logged[k] = <<calls[Len(calls)].query[2], calls[Len(calls)].query[3]>>

\* C4: a scan in which a pair query failed does not end in an error
C4_ScanCompletesAfterFailure ==
  (\E i \in 1..Len(calls) : IsPairCall(calls[i]) /\ ~calls[i].ok)
  => (m_pc # "crashed" /\ m_err = ErrNone)

-----------------------------------------------------------------------------
(* Properties of _not_allowed_intersection_check (SpecCheck) *)

\* admissibles.get(table, {}) of the claims; None has no entries
AdmGet(adm, table) ==
  IF adm.none \/ table \notin DOMAIN adm.dict THEN {} ELSE adm.dict[table]

Classified == c_pc \in {"checked", "bucketed"}

\* every check point of the row is a vertex of geometry1 or of geometry2
AllCheckPointsAreVertices(row) ==
  \A i \in 1..Len(CheckPoints(row.geomi)) :
    \/ point_in_geojson_geom(CheckPoints(row.geomi)[i], row.geom1)
    \/ point_in_geojson_geom(CheckPoints(row.geomi)[i], row.geom2)

\* the row reaches the endpoint test: admissible pair, not crossing, Point or
\* LineString intersection, line-line, line-polygon or polygon-line features
ReachesEndpointTest ==
  /\ c_table2 \in AdmGet(c_adm, c_table)
  /\ ~c_row.crosses
  /\ c_row.geomi.type \in {"Point", "LineString"}
  /\ \/ (c_row.geom1.type \in LineTypes /\ c_row.geom2.type \in LineTypes)
     \/ (c_row.geom1.type \in LineTypes /\ c_row.geom2.type \in PolygonTypes)
     \/ (c_row.geom1.type \in PolygonTypes /\ c_row.geom2.type \in LineTypes)

\* C5: a row of a pair with table2 not in admissibles.get(table1, {}) is
\* classified "not addmissible intersection" whatever its crosses flag,
\* dimension and geometries; an entry admissibles[table2] naming table1 does
\* not make the pair admissible
C5_NotAdmissibleGate ==
  (Classified /\ c_table2 \notin AdmGet(c_adm, c_table))
  => c_msg = MsgNotAdmissible

\* the reverse entry exists, the row crosses, the message is the gate's
C5_Witness ==
  /\ Classified
  /\ c_table2 \notin AdmGet(c_adm, c_table)
  /\ c_table \in AdmGet(c_adm, c_table2)
  /\ c_row.crosses
  /\ c_row.geomi.type = "Polygon"
  /\ c_msg = MsgNotAdmissible

\* C6: with no admissibles file name, a missing file or an empty object,
\* every row is classified "not addmissible intersection"
C6_AbsentConfiguration ==
  (Classified
   /\ (~c_admfile.given \/ ~c_admfile.isfile \/ DOMAIN c_admfile.data = {}))
  => c_msg = MsgNotAdmissible

\* a named but missing file: read_json_file returned None
C6_Witness ==
  /\ Classified
  /\ c_admfile.given
  /\ ~c_admfile.isfile
  /\ c_adm.none
  /\ ~c_row.crosses
  /\ c_row.geomi.type = "Point"
  /\ c_msg = MsgNotAdmissible

\* C7: a row of an admissible pair whose crosses flag is true is classified
\* "crosses" whatever the types of its three geometries
C7_Crosses ==
  (Classified /\ c_table2 \in AdmGet(c_adm, c_table) /\ c_row.crosses)
  => c_msg = MsgCrosses

\* a crossing row whose intersection is a Polygon
C7_Witness ==
  /\ Classified
  /\ c_table2 \in AdmGet(c_adm, c_table)
  /\ c_row.crosses
  /\ c_row.geomi.type = "Polygon"
  /\ c_row.geom1.type = "Point"
  /\ c_msg = MsgCrosses

\* C8: a non-crossing row of an admissible pair whose intersection is
\* neither a Point nor a LineString is classified "result intersection is
\* not point or line" whatever the types of geometry1 and geometry2
C8_TopologyGate ==
  (Classified /\ c_table2 \in AdmGet(c_adm, c_table) /\ ~c_row.crosses
   /\ c_row.geomi.type \notin {"Point", "LineString"})
  => c_msg = MsgNotPointOrLine

\* a MultiPoint intersection of two lines
C8_Witness ==
  /\ Classified
  /\ c_table2 \in AdmGet(c_adm, c_table)
  /\ ~c_row.crosses
  /\ c_row.geomi.type = "MultiPoint"
  /\ c_row.geom1.type = "LineString"
  /\ c_row.geom2.type = "LineString"
  /\ c_msg = MsgNotPointOrLine

\* C9: a row that reaches the endpoint test and whose check points are all
\* vertices of geometry1 or geometry2 gets no message and goes to no bucket
C9_VertexTouchDropped ==
  (Classified /\ ReachesEndpointTest /\ AllCheckPointsAreVertices(c_row))
  => (c_msg = NoMsg /\ c_bucket = "none")

\* C10: a row that reaches the endpoint test and has a check point that is a
\* vertex of neither geometry is classified "invalid addmissible intersection"
C10_UnmatchedPointInvalid ==
  (Classified /\ ReachesEndpointTest /\ ~AllCheckPointsAreVertices(c_row))
  => c_msg = MsgInvalidAdmissible

\* the feature geometries are line-line, line-polygon or polygon-line
LineOrPolygonPair ==
  \/ (c_row.geom1.type \in LineTypes /\ c_row.geom2.type \in LineTypes)
  \/ (c_row.geom1.type \in LineTypes /\ c_row.geom2.type \in PolygonTypes)
  \/ (c_row.geom1.type \in PolygonTypes /\ c_row.geom2.type \in LineTypes)

\* C11: a non-crossing row of an admissible pair with a Point or LineString
\* intersection whose feature geometries are not line-line, line-polygon or
\* polygon-line is classified "not a line-line or line-polygon intersection",
\* and no row whose feature geometries are one of those pairs gets that message
C11_OtherTypesOnly ==
  /\ (Classified /\ c_table2 \in AdmGet(c_adm, c_table) /\ ~c_row.crosses
      /\ c_row.geomi.type \in {"Point", "LineString"} /\ ~LineOrPolygonPair)
     => c_msg = MsgNotLineLine
  /\ (Classified /\ LineOrPolygonPair) => c_msg # MsgNotLineLine

\* C12: a violation is bucketed by its intersection geometry alone:
\* GeometryCollection goes to collection whatever the dimension, otherwise
\* dimension 0 goes to point, 1 to line and any other value to polygon
C12_BucketByTopology ==
  (c_pc = "bucketed" /\ c_msg # NoMsg)
  => /\ c_row.geomi.type = "GeometryCollection" => c_bucket = "collection"
     /\ c_row.geomi.type # "GeometryCollection" =>
          /\ c_row.dimension = 0 => c_bucket = "point"
          /\ c_row.dimension = 1 => c_bucket = "line"
          /\ c_row.dimension \notin {0, 1} => c_bucket = "polygon"

\* a GeometryCollection of dimension 0 in the collection bucket
C12_Witness ==
  /\ c_pc = "bucketed"
  /\ c_row.geomi.type = "GeometryCollection"
  /\ c_row.dimension = 0
  /\ c_msg = MsgCrosses
  /\ c_bucket = "collection"

-----------------------------------------------------------------------------
(* Properties of the pair loop (Spec) *)

\* the rows returned so far to the pair loop of a base table, in call order,
\* each with the table2 of its query
RECURSIVE ReturnedRows(_, _, _)
ReturnedRows(cs, base, k) ==
  IF k > Len(cs) THEN <<>>
  ELSE (IF IsPairCall(cs[k]) /\ cs[k].query[2] = base /\ cs[k].error = ErrNone
        THEN [i \in 1..Len(cs[k].rows) |->
                [table |-> base, table2 |-> cs[k].query[3], row |-> cs[k].rows[i]]]
        ELSE <<>>)
       \o ReturnedRows(cs, base, k + 1)

\* the entries of all four buckets
AllBucketEntries(vals) == vals.point \o vals.line \o vals.polygon \o vals.collection

InPairLoop == m_pc = "pairs" /\ m_args.rule = Rule_intersect

\* C13: during the pair loop every returned row has been passed to the
\* classifier exactly once, and the rows that got a message are each in
\* exactly one bucket, once: the bucket entries of a feature pair are as many
\* as the returned rows of that pair with a message, and the buckets hold as
\* many entries as rows got a message
C13_ClassifiedOnceBucketedOnce ==
  InPairLoop =>
    LET ret == ReturnedRows(calls, m_tables[m_ti], 1)
        ents == AllBucketEntries(m_values)
        withMsg == {i \in 1..Len(ret) :
                      not_allowed_intersection_check(ret[i].table, ret[i].table2,
                                                     ret[i].row, m_admissibles) # NoMsg}
    IN /\ SelectSeq(m_checked, LAMBDA e : e.table = m_tables[m_ti]) = ret
       /\ Len(ents) = Cardinality(withMsg)
       /\ \A i \in 1..Len(ret) :
            Cardinality({j \in 1..Len(ents) :
                           /\ ents[j].table2 = ret[i].table2
                           /\ ents[j].fid1 = ret[i].row.id1
                           /\ ents[j].fid2 = ret[i].row.id2})
            = Cardinality({j \in withMsg :
                             /\ ret[j].table2 = ret[i].table2
                             /\ ret[j].row.id1 = ret[i].row.id1
                             /\ ret[j].row.id2 = ret[i].row.id2})

\* two pairs scanned, rows returned by both, all in the buckets
C13_Witness ==
  /\ InPairLoop
  /\ m_tj = 3
  /\ Len(m_checked) = 2 * MaxRows
  /\ Len(AllBucketEntries(m_values)) = 2 * MaxRows
  /\ Len(m_values.collection) > 0
  /\ Len(m_values.point) > 0

\* number of intersection queries issued so far for table1 t1 and table2 t2
PairQueries(t1, t2) ==
  Cardinality({k \in 1..Len(calls) : calls[k].query = IntersectionQuery(t1, t2)})

ScanEnded == m_pc \in {"done", "crashed"}

\* C14: when an intersect scan in which no query failed has ended, exactly
\* one intersection query was issued for each pair (ti, tj) with i < j, and
\* at no time is there a query for i = j or i > j
C14_EachPairQueriedOnce ==
  /\ \A i \in 1..Len(m_tables) : \A j \in 1..i :
       PairQueries(m_tables[i], m_tables[j]) = 0
  /\ (/\ m_args.rule = Rule_intersect
      /\ ScanEnded
      /\ \A k \in 1..Len(calls) : calls[k].ok)
     => \A i \in 1..Len(m_tables) : \A j \in (i + 1)..Len(m_tables) :
          PairQueries(m_tables[i], m_tables[j]) = 1

\* the violation a returned row stands for
ViolationOf(e) ==
  IntersectGeomResult(e.table, e.row.id1, e.table2, e.row.id2, e.row.text,
                      not_allowed_intersection_check(e.table, e.table2, e.row,
                                                     m_admissibles))

\* the returned rows of the base table that belong to a bucket, in the order
\* of the pair queries and, within a pair, in the order of the rows
ReturnedFor(key) ==
  SelectSeq(ReturnedRows(calls, m_tables[m_ti], 1),
            LAMBDA e : BucketOf(e.row, ViolationOf(e).msg) = key)

\* C15: each bucket of the base table holds its violations in row-query
\* order: earlier table2 first, and within a pair in the order of the rows
C15_RowQueryOrder ==
  InPairLoop =>
    \A n \in 1..Len(BucketKeys) :
      LET key == BucketKeys[n] IN
      /\ Len(m_values[key]) = Len(ReturnedFor(key))
      /\ \A i \in 1..Len(m_values[key]) :
           m_values[key][i] = ViolationOf(ReturnedFor(key)[i])

\* a bucket with two violations of one pair followed by one of a later pair
C15_Witness ==
  /\ InPairLoop
  /\ \E n \in 1..Len(BucketKeys) :
       LET b == m_values[BucketKeys[n]] IN
       /\ Len(b) >= 3
       /\ b[1].table2 = b[2].table2
       /\ b[1].fid1 # b[2].fid1
       /\ b[3].table2 # b[1].table2

-----------------------------------------------------------------------------
(* Properties of main's error handling (Spec) *)

IsSimpleCall(c) == c.query[1] \in {SimpleRules[k] : k \in 1..Len(SimpleRules)}

SchemaFailed == \E k \in 1..Len(calls) : calls[k].query = SchemaQuery /\ ~calls[k].ok

\* C17: a failed connect raises PGDBManagerError and leaves no connection,
\* and main then sends nothing and checks nothing; a failed schema listing
\* raises PGDBManagerError out of main before any control_table call; after
\* a successful connect the connection is set
C17_FatalFailures ==
  /\ connect(FALSE) = [error |-> ErrManager, conn |-> NoConn]
  /\ m_pc = "exit" =>
       /\ cursor = NoConn
       /\ calls = <<>> /\ sent = <<>>
       /\ m_tables = <<>> /\ m_files = {}
  /\ SchemaFailed =>
       /\ m_pc = "crashed" /\ m_err = ErrManager
       /\ Len(calls) = 1
       /\ m_tables = <<>> /\ m_ti = 0 /\ m_files = {}
  /\ m_pc \notin {"start", "exit"} => cursor # NoConn

\* main ended by the failure of the schema listing
C17_Witness ==
  /\ SchemaFailed
  /\ m_pc = "crashed"
  /\ cursor # NoConn

\* the base table before the current one had tables after it: its buckets
\* were handed to process_result
HandedOver ==
  /\ m_args.rule = Rule_intersect
  /\ m_pc = "tables"
  /\ m_ti > 1
  /\ m_ti - 1 < Len(m_tables)

\* C18: the hand-over of the four buckets of a base table completes without
\* error, and it writes, for each non-empty bucket and for no empty one, one
\* file {table}_{key}.csv with the six header columns and one row per
\* violation of the bucket
C18_BucketsHandedOver ==
  /\ (m_args.rule = Rule_intersect /\ \A k \in 1..Len(calls) : calls[k].ok)
     => (m_pc # "crashed" /\ m_err = ErrNone)
  /\ HandedOver =>
       \A n \in 1..Len(BucketKeys) :
         LET key == BucketKeys[n]
             written == {f \in m_files : /\ f.dir = Rule_intersect
                                         /\ f.name = <<m_tables[m_ti - 1], key>>}
         IN /\ Cardinality(written) = (IF Len(m_values[key]) > 0 THEN 1 ELSE 0)
            /\ \A f \in written : /\ f.hrow = IntersectHeader
                                  /\ Len(f.hrow) = 6
                                  /\ Len(f.rows) = Len(m_values[key])

-----------------------------------------------------------------------------
(* Properties of the statements of a scan (Spec) *)

\* SQL command of a statement sent through cursor.execute
SentVerb(stmt) == IF stmt.op = "QUERY" THEN QueryVerb(stmt.name) ELSE stmt.op

SentVerbs == {SentVerb(sent[i]) : i \in 1..Len(sent)}

\* C19: every statement sent during a scan is a SELECT or a savepoint
\* statement; there is no COMMIT, no full ROLLBACK and no statement that
\* changes data
C19_ReadOnlyStatements ==
  SentVerbs \subseteq {"SELECT", "SAVEPOINT", "RELEASE SAVEPOINT",
                       "ROLLBACK TO SAVEPOINT"}

\* a scan that has sent all four kinds of statements
C19_Witness ==
  /\ m_pc \in {"tables", "pairs", "crashed", "done"}
  /\ SentVerbs = {"SELECT", "SAVEPOINT", "RELEASE SAVEPOINT", "ROLLBACK TO SAVEPOINT"}
  /\ \E i \in 1..Len(sent) : sent[i].op = "QUERY" /\ sent[i].name[1] = "intersection"

-----------------------------------------------------------------------------
(* Properties of concurrent callers (SpecConc) *)

InCall(c) == k_pc[c] \in {"try", "executed", "else", "except"}

\* the savepoint of a call in progress is gone from its transaction
SavepointDestroyed(c) ==
  InCall(c) /\ LastIndexOf(k_conn[ConnOf(c)].savepoints, k_cur[c].sp) = 0

\* a caller holds or has returned rows of the other caller's statement
FetchedForeignRows(c) ==
  \/ k_pc[c] = "else" /\ k_cur[c].rows # k_cur[c].answer.rows
  \/ \E i \in 1..Len(k_log[c]) :
       k_log[c][i].error = ErrNone /\ k_log[c][i].rows # k_log[c][i].expected

\* a call whose statement the database accepts left with an exception
ValidCallFailed(c) ==
  \E i \in 1..Len(k_log[c]) : k_log[c][i].ok /\ k_log[c][i].error # ErrNone

ConcBad ==
  \E c \in Callers : SavepointDestroyed(c) \/ FetchedForeignRows(c) \/ ValidCallFailed(c)

\* C20: with one connection per caller no interleaving of the callers'
\* SAVEPOINT / statement / fetch / ROLLBACK TO / RELEASE steps destroys a
\* savepoint in use, hands a caller other rows than its own statement's, or
\* makes an accepted statement fail
C20_SeparateConnectionsSafe == ~k_shared => ~ConcBad

\* on a shared connection such a state is reached: a caller's savepoint was
\* destroyed by the other caller, and a caller fetched the other's rows
C20_Witness ==
  /\ k_shared
  /\ \E c \in Callers : SavepointDestroyed(c)
  /\ \E c \in Callers, d \in Callers :
       /\ c # d
       /\ \E i \in 1..Len(k_log[c]) :
            /\ k_log[c][i].error = ErrNone
            /\ k_log[c][i].expected = << <<c>> >>
            /\ k_log[c][i].rows = << <<d>> >>

-----------------------------------------------------------------------------
(* Properties of the statements of get_query_result (SpecExec) *)

\* the three statements of the i-th call on the connection
CallStmts(i) == SubSeq(sent, 3 * i - 2, 3 * i)

\* C21: each call sends SAVEPOINT name, then the caller's statement, then
\* RELEASE SAVEPOINT name when the call returns its rows and ROLLBACK TO
\* SAVEPOINT name when it raises; the name is the same within a call and
\* differs between the calls on the connection
C21_StatementOrder ==
  /\ Len(sent) = 3 * Len(calls)
  /\ \A i \in 1..Len(calls) :
       LET st == CallStmts(i) IN
       /\ st[1].op = "SAVEPOINT"
       /\ st[2] = StmtQuery(calls[i].query)
       /\ st[3].op = (IF calls[i].error = ErrNone THEN "RELEASE SAVEPOINT"
                      ELSE "ROLLBACK TO SAVEPOINT")
       /\ calls[i].error = ErrNone <=> calls[i].ok
       /\ calls[i].error = ErrNone => calls[i].rows = ExecAnswer(calls[i].query).rows
       /\ st[3].name = st[1].name
       /\ \A j \in 1..Len(calls) : j # i => CallStmts(j)[1].name # st[1].name

\* a call that raised after its rollback and a call that returned its rows
C21_Witness ==
  /\ Len(calls) >= 2
  /\ calls[1].error # ErrNone
  /\ CallStmts(1)[3] = StmtRollbackTo(CallStmts(1)[1].name)
  /\ calls[2].error = ErrNone
  /\ CallStmts(2)[3] = StmtRelease(CallStmts(2)[1].name)

-----------------------------------------------------------------------------
(* Properties of the module's functions and records (SpecUnit) *)

\* the vertices of a GeoJSON geometry that has lines or rings
RingVertices(rings) == UNION {{rings[i][j] : j \in 1..Len(rings[i])} : i \in 1..Len(rings)}

Vertices(geom) ==
  CASE geom.type = "LineString" -> {geom.coordinates[i] : i \in 1..Len(geom.coordinates)}
    [] geom.type \in {"Polygon", "MultiLineString"} -> RingVertices(geom.coordinates)
    [] geom.type = "MultiPolygon" ->
         UNION {RingVertices(geom.coordinates[i]) : i \in 1..Len(geom.coordinates)}
    [] OTHER -> {}

PointReturned == u_pc = "returned" /\ u_in.fn = "point_in_geojson_geom"

\* C22: point_in_geojson_geom returns True exactly when the point is a
\* vertex of a LineString, of a ring of a Polygon, of a line of a
\* MultiLineString or of a ring of a polygon of a MultiPolygon, and False
\* for Point, MultiPoint and GeometryCollection
C22_PointIsVertex ==
  PointReturned =>
    /\ u_out \in BOOLEAN
    /\ u_out <=> u_in.point \in Vertices(u_in.geom)
    /\ u_in.geom.type \in {"Point", "MultiPoint", "GeometryCollection"} => ~u_out

\* True for a vertex that lies only in the second ring of a Polygon
C22_Witness ==
  /\ PointReturned
  /\ u_out = TRUE
  /\ u_in.geom.type = "Polygon"
  /\ Len(u_in.geom.coordinates) = 2
  /\ ~InCoords(u_in.point, u_in.geom.coordinates[1])

\* C24: a fresh IntersectGeomResult loaded with from_list(r.to_list()) has
\* the six fields of r
C24_RoundTrip ==
  (u_pc = "loaded" /\ u_in.fn = "to_list") =>
    /\ u_out.table1 = u_in.rec.table1
    /\ u_out.fid1 = u_in.rec.fid1
    /\ u_out.table2 = u_in.rec.table2
    /\ u_out.fid2 = u_in.rec.fid2
    /\ u_out.int_geom = u_in.rec.int_geom
    /\ u_out.msg = u_in.rec.msg

-----------------------------------------------------------------------------
(* Further properties of the executor, the classifier and the pair loop *)

\* C25: after every call of get_query_result, returned or raised, the
\* savepoint of the call is gone: no savepoint is outstanding between calls
C25_NoSavepointLeft ==
  Len(cursor.savepoints) = 0

FiveMessages ==
  {MsgNotAdmissible, MsgCrosses, MsgNotPointOrLine, MsgInvalidAdmissible, MsgNotLineLine}

\* C26: the classifier returns one of the five messages, never an empty
\* one, for every row, and the row is then put in one of the four buckets
C26_AlwaysAMessage ==
  /\ Classified => (c_msg \in FiveMessages /\ c_msg # NoMsg)
  /\ c_pc = "bucketed" => c_bucket \in {BucketKeys[n] : n \in 1..Len(BucketKeys)}

\* a row that passed every gate and the endpoint test, with its message, in
\* a bucket
C26_Witness ==
  /\ c_pc = "bucketed"
  /\ ~NotAdmissible(c_table, c_table2, c_adm)
  /\ ~c_row.crosses
  /\ ~NotPointNorLine(c_row.geomi)
  /\ c_msg = MsgNotLineLine
  /\ c_bucket = "line"

FailedPairCall(k) == IsPairCall(calls[k]) /\ calls[k].error # ErrNone

\* C27: a pair whose query failed puts nothing in a bucket: no classifier
\* call and no bucket entry carries a table2 whose query failed, and the
\* unassigned local rows is never read
C27_FailedPairContributesNothing ==
  /\ m_err # ErrUnbound
  /\ \A k \in 1..Len(calls) :
       FailedPairCall(k) =>
         /\ \A i \in 1..Len(m_checked) :
              ~(m_checked[i].table = calls[k].query[2]
                /\ m_checked[i].table2 = calls[k].query[3])
         /\ \A j \in 1..Len(AllBucketEntries(m_values)) :
              ~(AllBucketEntries(m_values)[j].table1 = calls[k].query[2]
                /\ AllBucketEntries(m_values)[j].table2 = calls[k].query[3])

\* the second pair of a base table failed after the first returned rows,
\* which are in the buckets
C27_Witness ==
  /\ Len(calls) = 3
  /\ IsPairCall(calls[2]) /\ calls[2].error = ErrNone /\ Len(calls[2].rows) = MaxRows
  /\ FailedPairCall(3)
  /\ Len(AllBucketEntries(m_values)) = MaxRows
  /\ Len(m_checked) = MaxRows

-----------------------------------------------------------------------------
(* Properties of control_table's choice of checks (Spec) *)

\* number of queries of a single-table check issued so far for a table
SimpleQueries(rule, table) ==
  Cardinality({k \in 1..Len(calls) : calls[k].query = SimpleQuery(rule, table)})

C29_IntersectOnlyOnRequest ==
  /\ m_args.rule # Rule_intersect =>
       /\ \A k \in 1..Len(calls) : ~IsPairCall(calls[k])
       /\ Rule_intersect \notin m_dirs
  /\ m_args.rule = Rule_intersect =>
       \A k \in 1..Len(calls) : ~IsSimpleCall(calls[k])
  /\ (m_args.rule = Rule_aall /\ m_pc = "done") =>
       \A i \in 1..Len(m_tables) : \A k \in 1..Len(SimpleRules) :
         SimpleQueries(SimpleRules[k], m_tables[i]) = 1

\* a finished scan with rule all over the largest schema
C29_Witness ==
  /\ m_args.rule = Rule_aall
  /\ m_pc = "done"
  /\ Len(m_tables) = MaxTables
  /\ Len(calls) = 1 + MaxTables * Len(SimpleRules)
  /\ m_dirs = {SimpleRules[k] : k \in 1..Len(SimpleRules)}

-----------------------------------------------------------------------------
(* Properties of the buckets as objects (SpecInvoke) *)

IsPrefix(sq, tq) == Len(sq) <= Len(tq) /\ SubSeq(tq, 1, Len(sq)) = sq

\* the list identities an object holds
ListsOf(obj) == {obj.point, obj.line, obj.polygon, obj.collection}

\* the objects alive: those returned and the one being filled
LiveObjects ==
  {g_results[k].obj : k \in 1..Len(g_results)}
  \cup (IF g_pc = "loop" THEN {g_values} ELSE {})

\* C23: classifying the rows of a pair only appends to the four buckets of
\* the invocation in progress: what was in a bucket before the pair is still
\* there, in place; an object returned earlier is as it was returned; an
\* invocation starts from four empty buckets; and no list belongs to two
\* objects or to two attributes of one object
C23_AppendOnlyNoAliasing ==
  /\ g_pc = "loop" =>
       \A n \in 1..Len(BucketKeys) :
         /\ IsPrefix(g_inv.before[BucketKeys[n]], g_heap[g_values[BucketKeys[n]]])
         /\ g_inv.tj = 1 => g_heap[g_values[BucketKeys[n]]] = <<>>
  /\ \A k \in 1..Len(g_results) :
       Deref(g_heap, g_results[k].obj) = g_results[k].returned
  /\ \A o \in LiveObjects :
       /\ Cardinality(ListsOf(o)) = 4
       /\ \A p \in LiveObjects : p # o => ListsOf(p) \cap ListsOf(o) = {}

\* a second invocation has appended to its buckets while the caller holds
\* the non-empty result of the first
C23_Witness ==
  /\ g_pc = "loop"
  /\ Len(g_results) = 1
  /\ g_results[1].returned.point # <<>>
  /\ g_inv.tj = 3
  /\ g_inv.before.point # <<>>
  /\ Len(g_heap[g_values.point]) > Len(g_inv.before.point)

====
